---- MODULE Spec2Model ----
(***************************************************************************)
(* GeminiService (src/core/gemini_service.py): the tiered generators, the  *)
(* retry loop of generate_with_retry, and parse_json_response.             *)
(*                                                                         *)
(* Spec       one call of generate_with_retry, stepped statement by        *)
(*            statement, against a backend whose every generate_content    *)
(*            call returns a response or raises.                           *)
(* FairSpec   Spec with the progress of sequential code.                   *)
(* ParseSpec  parse_json_response applied to bounded response texts.       *)
(* ConcSpec   two calls of generate_with_retry from different callers,     *)
(*            their statements interleaved in every order.                 *)
(***************************************************************************)
EXTENDS Integers, Sequences, FiniteSets, TLC

VARIABLES
    pc,             \* position in generate_with_retry: idle/for/try/except/sleep/done
    prompt,         \* argument prompt
    model_type,     \* argument model_type
    max_retries,    \* argument max_retries
    kwargs,         \* argument **kwargs
    range_next,     \* next value the iterator of range(max_retries) yields
    attempt,        \* loop variable (Unbound before the first iteration)
    exc,            \* the exception e bound by "except Exception as e"
    models,         \* identifiers passed to genai.GenerativeModel, in order
    calls,          \* generate_content calls <<identifier, prompt, kwargs>>, in order
    outcomes,       \* what each generate_content call did (returned / raised)
    sleeps,         \* arguments of time.sleep, in order
    trace,          \* "try" per loop-body entry and "sleep" per time.sleep, in order
    result,         \* how generate_with_retry ended
    response_text,  \* argument of parse_json_response
    wrapped,        \* the object response_text was serialized from, if any
    parse_result,   \* how parse_json_response ended
    callers,        \* ConcSpec: per caller, its thread's position, the arguments
                    \* of its call, what it saw of the backend and of time.sleep
    frames          \* ConcSpec: per call frame, the locals of the retry loop

retry_vars == <<pc, prompt, model_type, max_retries, kwargs, range_next, attempt,
                exc, models, calls, outcomes, sleeps, trace, result>>
parse_vars == <<response_text, wrapped, parse_result>>
conc_vars == <<callers, frames>>
vars == <<pc, prompt, model_type, max_retries, kwargs, range_next, attempt,
          exc, models, calls, outcomes, sleeps, trace, result,
          response_text, wrapped, parse_result, callers, frames>>

----------------------------------------------------------------------------
(* Bounds of the model *)

\* max_retries ranges over -1 .. MaxRetriesBound
MaxRetriesBound == 3

----------------------------------------------------------------------------
(* Values *)

\* Optional[str]: None or a str
None == [isNone |-> TRUE, text |-> ""]
Str(s) == [isNone |-> FALSE, text |-> s]

\* no exception / no result yet
NoExc == [type |-> "none", msg |-> <<>>, id |-> 0]
Pending == [kind |-> "pending", value |-> None, exc |-> NoExc]
Returned(v) == [kind |-> "return", value |-> v, exc |-> NoExc]
Raised(e) == [kind |-> "raise", value |-> None, exc |-> e]

\* the response_text argument: None or a str
NoneText == [isNone |-> TRUE, text |-> <<>>]
Text(cs) == [isNone |-> FALSE, text |-> cs]

\* how response_text was built: from an object, between lead and trail, or not
NotWrapped == [form |-> "raw", obj |-> <<>>, ws |-> <<>>, lead |-> <<>>, trail |-> <<>>]
WrappedAs(o, w, l, t) == [form |-> "wrapped", obj |-> <<o>>, ws |-> w, lead |-> l, trail |-> t]

\* loop variable before "for" binds it
Unbound == -1

\* settings.GEMINI_MODEL_LITE / _FLASH / _PRO
GEMINI_MODEL_LITE == "settings.GEMINI_MODEL_LITE"
GEMINI_MODEL_FLASH == "settings.GEMINI_MODEL_FLASH"
GEMINI_MODEL_PRO == "settings.GEMINI_MODEL_PRO"

\* Inputs of a call
Prompts == {"p1", "p2"}
Kwargs == {"{}", "{generation_config}"}
ModelTypes == {"lite", "flash", "pro", "turbo", ""}
RetryBudgets == -1 .. MaxRetriesBound

\* What model.generate_content can do: return a response object (truthy, with
\* a text, or falsy) or raise an exception (a new object on every raise; id is
\* its identity, the 1-based number of the loop iteration that raised it).
Responses == {[truthy |-> TRUE, text |-> "answer"],
              [truthy |-> TRUE, text |-> ""],
              [truthy |-> FALSE, text |-> ""]}
BackendErrorTypes == {"ServiceUnavailable", "ResourceExhausted"}
BackendError(ty, n) == [type |-> ty, msg |-> <<"backend failure">>, id |-> n]
BackendOutcomes(n) ==
    {[raises |-> FALSE, response |-> r, exc |-> NoExc] : r \in Responses}
    \cup {[raises |-> TRUE, response |-> [truthy |-> FALSE, text |-> ""],
           exc |-> BackendError(ty, n)] : ty \in BackendErrorTypes}

----------------------------------------------------------------------------
(* The tiered generators, lines 23-39.  Each constructs a handle for its    *)
(* configured identifier, issues one generate_content call and returns      *)
(* response.text if response else None; an exception passes through.        *)

GeneratorReturn(response) == IF response.truthy THEN Str(response.text) ELSE None

generate_with(id, out) ==
    /\ models' = Append(models, id)
    /\ calls' = Append(calls, <<id, prompt, kwargs>>)
    /\ outcomes' = Append(outcomes,
                          IF out.raises THEN Raised(out.exc)
                          ELSE Returned(GeneratorReturn(out.response)))

LiteModel == GEMINI_MODEL_LITE
FlashModel == GEMINI_MODEL_FLASH
\* slip: the pro generator built with the flash identifier
ProModel_flash == GEMINI_MODEL_FLASH
ProModel == GEMINI_MODEL_PRO

generate_with_lite(out) == generate_with(LiteModel, out)
generate_with_flash(out) == generate_with(FlashModel, out)
generate_with_pro(out) == generate_with(ProModel, out)

----------------------------------------------------------------------------
(* generate_with_retry, lines 45-72 *)

\* slip: an unknown model_type falls through to the default tier
Dispatch_default(mt) ==
    IF mt = "lite" THEN "lite"
    ELSE IF mt = "pro" THEN "pro"
    ELSE "flash"

\* the if/elif/else chain of lines 56-63
Dispatch(mt) ==
    IF mt = "lite" THEN "lite"
    ELSE IF mt = "flash" THEN "flash"
    ELSE IF mt = "pro" THEN "pro"
    ELSE "invalid"

\* line 63
InvalidModelType(mt, n) == [type |-> "ValueError", msg |-> <<"Invalid model_type: ", mt>>, id |-> n]

\* line 72
RetryExhausted == [type |-> "RuntimeError", msg |-> <<"Failed after maximum retries">>, id |-> 0]

\* slip: range(max_retries + 1)
RangeHasNext_inclusive(i, n) == i <= n

\* range(max_retries) has another value
RangeHasNext(i, n) == i < n

\* slip: attempt == max_retries
IsLastAttempt_off_by_one(a, n) == a = n

\* slip: the last-attempt test never holds, every failure sleeps
IsLastAttempt_never(a, n) == FALSE

\* slip: the test holds on the first attempt only, a failure is never retried
IsLastAttempt_first(a, n) == a = 0

\* line 66
IsLastAttempt(a, n) == a = n - 1

\* slip: 2 * attempt
WaitTime_linear(a) == 2 * a

\* slip: the exponent counted from one
WaitTime_doubled(a) == 2 ^ (a + 1)

\* line 69
WaitTime(a) == 2 ^ a

\* line 54: "for attempt in range(max_retries)"; line 72 when the range ends
ForLoop ==
    /\ pc = "for"
    /\ IF RangeHasNext(range_next, max_retries)
       THEN /\ attempt' = range_next
            /\ range_next' = range_next + 1
            /\ pc' = "try"
            /\ trace' = Append(trace, "try")
            /\ UNCHANGED result
       ELSE /\ result' = Raised(RetryExhausted)
            /\ pc' = "done"
            /\ UNCHANGED <<attempt, range_next, trace>>
    /\ UNCHANGED <<prompt, model_type, max_retries, kwargs, exc, models, calls,
                   outcomes, sleeps>>
    /\ UNCHANGED parse_vars
    /\ UNCHANGED conc_vars

\* slip: a None result handled like a failure
AfterGenerator_none_fails(out) ==
    IF out.raises \/ ~out.response.truthy
    THEN /\ exc' = out.exc
         /\ pc' = "except"
         /\ UNCHANGED result
    ELSE /\ result' = Returned(GeneratorReturn(out.response))
         /\ pc' = "done"
         /\ UNCHANGED exc

\* what the try body does once the called generator came back with out
AfterGenerator(out) ==
    IF out.raises
    THEN /\ exc' = out.exc
         /\ pc' = "except"
         /\ UNCHANGED result
    ELSE /\ result' = Returned(GeneratorReturn(out.response))
         /\ pc' = "done"
         /\ UNCHANGED exc

\* lines 56-57
TryLite ==
    /\ pc = "try"
    /\ Dispatch(model_type) = "lite"
    /\ \E out \in BackendOutcomes(attempt + 1) :
          /\ generate_with_lite(out)
          /\ AfterGenerator(out)
    /\ UNCHANGED <<prompt, model_type, max_retries, kwargs, range_next, attempt,
                   sleeps, trace>>
    /\ UNCHANGED parse_vars
    /\ UNCHANGED conc_vars

\* lines 58-59
TryFlash ==
    /\ pc = "try"
    /\ Dispatch(model_type) = "flash"
    /\ \E out \in BackendOutcomes(attempt + 1) :
          /\ generate_with_flash(out)
          /\ AfterGenerator(out)
    /\ UNCHANGED <<prompt, model_type, max_retries, kwargs, range_next, attempt,
                   sleeps, trace>>
    /\ UNCHANGED parse_vars
    /\ UNCHANGED conc_vars

\* lines 60-61
TryPro ==
    /\ pc = "try"
    /\ Dispatch(model_type) = "pro"
    /\ \E out \in BackendOutcomes(attempt + 1) :
          /\ generate_with_pro(out)
          /\ AfterGenerator(out)
    /\ UNCHANGED <<prompt, model_type, max_retries, kwargs, range_next, attempt,
                   sleeps, trace>>
    /\ UNCHANGED parse_vars
    /\ UNCHANGED conc_vars

\* lines 62-63: the ValueError is raised inside the try block
TryInvalid ==
    /\ pc = "try"
    /\ Dispatch(model_type) = "invalid"
    /\ exc' = InvalidModelType(model_type, attempt + 1)
    /\ pc' = "except"
    /\ UNCHANGED <<prompt, model_type, max_retries, kwargs, range_next, attempt,
                   models, calls, outcomes, sleeps, trace, result>>
    /\ UNCHANGED parse_vars
    /\ UNCHANGED conc_vars

\* lines 65-67, 69: "except Exception as e" catches whatever the try body raised
Except ==
    /\ pc = "except"
    /\ IF IsLastAttempt(attempt, max_retries)
       THEN /\ result' = Raised(exc)
            /\ pc' = "done"
       ELSE /\ pc' = "sleep"
            /\ UNCHANGED result
    /\ UNCHANGED <<prompt, model_type, max_retries, kwargs, range_next, attempt,
                   exc, models, calls, outcomes, sleeps, trace>>
    /\ UNCHANGED parse_vars
    /\ UNCHANGED conc_vars

\* line 70
Sleep ==
    /\ pc = "sleep"
    /\ sleeps' = Append(sleeps, WaitTime(attempt))
    /\ trace' = Append(trace, "sleep")
    /\ pc' = "for"
    /\ UNCHANGED <<prompt, model_type, max_retries, kwargs, range_next, attempt,
                   exc, models, calls, outcomes, result>>
    /\ UNCHANGED parse_vars
    /\ UNCHANGED conc_vars

----------------------------------------------------------------------------
(* Python str and json, as parse_json_response uses them.  A str is a       *)
(* sequence of one-character strings.                                       *)

\* characters str.strip() removes: those str.isspace() holds of
PyWhitespace == {" ", "\n", "\t", "\r", "\f"}

\* json.decoder.WHITESPACE
JsonWhitespace == {" ", "\n", "\t", "\r"}

\* characters below U+0020, which a strict JSON string may not hold raw
ControlChars == {"\n", "\t", "\r", "\f"}

RECURSIVE lstrip(_)
lstrip(s) == IF s # <<>> /\ Head(s) \in PyWhitespace THEN lstrip(Tail(s)) ELSE s

RECURSIVE rstrip(_)
rstrip(s) ==
    IF s # <<>> /\ s[Len(s)] \in PyWhitespace THEN rstrip(SubSeq(s, 1, Len(s) - 1)) ELSE s

\* str.strip()
strip(s) == rstrip(lstrip(s))

\* str.startswith / str.endswith
startswith(s, p) == Len(s) >= Len(p) /\ SubSeq(s, 1, Len(p)) = p
endswith(s, p) == Len(s) >= Len(p) /\ SubSeq(s, Len(s) - Len(p) + 1, Len(s)) = p

\* s[n:] and s[:-n]
SliceFrom(s, n) == SubSeq(s, n + 1, Len(s))
SliceDropLast(s, n) == SubSeq(s, 1, Len(s) - n)

\* JSON values as Python objects
\* (one record shape for all: t the Python type, n the number, s the
\* characters, items the (key, value) pairs, the key of a list item being empty)
JVal(ty, num, chars, pairs) == [t |-> ty, n |-> num, s |-> chars, items |-> pairs]
JInt(num) == JVal("int", num, <<>>, <<>>)
JStr(cs) == JVal("str", 0, cs, <<>>)
JList(values) == JVal("list", 0, <<>>, [i \in 1 .. Len(values) |-> <<<<>>, values[i]>>])
\* a dict is its (key, value) pairs in insertion order, keys distinct
JDict(pairs) == JVal("dict", 0, <<>>, pairs)
JNull == JVal("NoneType", 0, <<>>, <<>>)
JBool(b) == JVal("bool", IF b THEN 1 ELSE 0, <<>>, <<>>)

\* d[key] = value on the pairs of a dict
RECURSIVE DictPut(_, _, _)
DictPut(pairs, key, value) ==
    IF pairs = <<>> THEN <<<<key, value>>>>
    ELSE IF Head(pairs)[1] = key THEN <<<<key, value>>>> \o Tail(pairs)
    ELSE <<Head(pairs)>> \o DictPut(Tail(pairs), key, value)

\* result of a scan: the value and the index after it, or a failure
\* (json.JSONDecodeError / StopIteration)
ScanFail == [ok |-> FALSE, v |-> JNull, end |-> 0]
ScanOk(value, e) == [ok |-> TRUE, v |-> value, end |-> e]

At(s, i) == IF i >= 1 /\ i <= Len(s) THEN s[i] ELSE "<end>"

\* WHITESPACE.match(s, i).end()
RECURSIVE SkipWs(_, _)
SkipWs(s, i) == IF At(s, i) \in JsonWhitespace THEN SkipWs(s, i + 1) ELSE i

\* json.decoder.BACKSLASH (the \b and \uXXXX escapes are outside the alphabet)
IsEscape(c) == c \in {"\"", "\\", "/", "n", "t", "r", "f"}
Unescape(c) ==
    CASE c = "n" -> "\n"
      [] c = "t" -> "\t"
      [] c = "r" -> "\r"
      [] c = "f" -> "\f"
      [] OTHER -> c

\* json.decoder.py_scanstring, strict; i is the index after the opening quote
RECURSIVE ScanString(_, _, _)
ScanString(s, i, acc) ==
    IF i > Len(s) THEN ScanFail
    ELSE IF s[i] = "\"" THEN ScanOk(JStr(acc), i + 1)
    ELSE IF s[i] = "\\"
         THEN IF IsEscape(At(s, i + 1))
              THEN ScanString(s, i + 2, Append(acc, Unescape(s[i + 1])))
              ELSE ScanFail
    ELSE IF s[i] \in ControlChars THEN ScanFail
    ELSE ScanString(s, i + 1, Append(acc, s[i]))

Digits == {"0", "1", "2", "3", "4", "5", "6", "7", "8", "9"}
DigitValue(c) ==
    CASE c = "0" -> 0 [] c = "1" -> 1 [] c = "2" -> 2 [] c = "3" -> 3 [] c = "4" -> 4
      [] c = "5" -> 5 [] c = "6" -> 6 [] c = "7" -> 7 [] c = "8" -> 8 [] c = "9" -> 9

\* the digits of [1-9]\d* from i on, as an int (the fraction and exponent of
\* json.scanner.NUMBER_RE need ".", "e", "E", which are outside the alphabet)
RECURSIVE ScanDigits(_, _, _)
ScanDigits(s, i, n) ==
    IF At(s, i) \in Digits THEN ScanDigits(s, i + 1, 10 * n + DigitValue(s[i]))
    ELSE ScanOk(JInt(n), i)

\* json.scanner.NUMBER_RE: -?(0|[1-9]\d*)
ScanNumber(s, i) ==
    LET neg == At(s, i) = "-"
        j == IF neg THEN i + 1 ELSE i
        r == IF At(s, j) = "0" THEN ScanOk(JInt(0), j + 1)
             ELSE IF At(s, j) \in Digits THEN ScanDigits(s, j, 0)
             ELSE ScanFail
    IN IF r.ok /\ neg THEN ScanOk(JInt(0 - r.v.n), r.end) ELSE r

\* "null", "true", "false" (NaN, Infinity and -Infinity are outside the alphabet)
Literal(s, i, word, value) ==
    IF i + Len(word) - 1 <= Len(s) /\ SubSeq(s, i, i + Len(word) - 1) = word
    THEN ScanOk(value, i + Len(word))
    ELSE ScanFail

RECURSIVE ScanOnce(_, _), ObjectBody(_, _, _), ArrayBody(_, _, _)

\* json.decoder.JSONObject; i is the index after "{"
JSONObject(s, i) ==
    LET j == SkipWs(s, i)
    IN IF At(s, j) = "}" THEN ScanOk(JDict(<<>>), j + 1)
       ELSE ObjectBody(s, j, <<>>)

\* one "key": value of an object and what follows it; i is where the key's
\* opening quote must be
ObjectBody(s, i, pairs) ==
    IF At(s, i) # "\"" THEN ScanFail
    ELSE LET key == ScanString(s, i + 1, <<>>)
         IN IF ~key.ok THEN ScanFail
            ELSE LET c == SkipWs(s, key.end)
                 IN IF At(s, c) # ":" THEN ScanFail
                    ELSE LET val == ScanOnce(s, SkipWs(s, c + 1))
                         IN IF ~val.ok THEN ScanFail
                            ELSE LET k == SkipWs(s, val.end)
                                     put == DictPut(pairs, key.v.s, val.v)
                                 IN IF At(s, k) = "}" THEN ScanOk(JDict(put), k + 1)
                                    ELSE IF At(s, k) = ","
                                         THEN ObjectBody(s, SkipWs(s, k + 1), put)
                                    ELSE ScanFail

\* json.decoder.JSONArray; i is the index after "["
JSONArray(s, i) ==
    LET j == SkipWs(s, i)
    IN IF At(s, j) = "]" THEN ScanOk(JList(<<>>), j + 1)
       ELSE ArrayBody(s, j, <<>>)

ArrayBody(s, i, items) ==
    LET val == ScanOnce(s, i)
    IN IF ~val.ok THEN ScanFail
       ELSE LET k == SkipWs(s, val.end)
                got == Append(items, val.v)
            IN IF At(s, k) = "]" THEN ScanOk(JList(got), k + 1)
               ELSE IF At(s, k) = "," THEN ArrayBody(s, SkipWs(s, k + 1), got)
               ELSE ScanFail

\* json.scanner.py_make_scanner._scan_once
ScanOnce(s, i) ==
    LET c == At(s, i)
    IN IF c = "\"" THEN ScanString(s, i + 1, <<>>)
       ELSE IF c = "{" THEN JSONObject(s, i + 1)
       ELSE IF c = "[" THEN JSONArray(s, i + 1)
       ELSE IF c = "n" THEN Literal(s, i, <<"n", "u", "l", "l">>, JNull)
       ELSE IF c = "t" THEN Literal(s, i, <<"t", "r", "u", "e">>, JBool(TRUE))
       ELSE IF c = "f" THEN Literal(s, i, <<"f", "a", "l", "s", "e">>, JBool(FALSE))
       ELSE ScanNumber(s, i)

\* json.loads(s): JSONDecoder.decode; ok = FALSE is json.JSONDecodeError
json_loads(s) ==
    LET r == ScanOnce(s, SkipWs(s, 1))
    IN IF r.ok /\ SkipWs(s, r.end) = Len(s) + 1 THEN r ELSE ScanFail

\* index of the first / last occurrence of c in s, 0 when there is none
RECURSIVE find(_, _, _)
find(s, c, i) == IF i > Len(s) THEN 0 ELSE IF s[i] = c THEN i ELSE find(s, c, i + 1)
RECURSIVE rfind(_, _, _)
rfind(s, c, i) == IF i < 1 THEN 0 ELSE IF s[i] = c THEN i ELSE rfind(s, c, i - 1)

\* slip: the non-greedy pattern \{.*?\}, which stops at the first "}"
re_search_lazy(text) ==
    LET first == find(text, "{", 1)
        close == IF first >= 1 THEN find(text, "}", first + 1) ELSE 0
    IN IF first >= 1 /\ close > first
       THEN [found |-> TRUE, group |-> SubSeq(text, first, close)]
       ELSE [found |-> FALSE, group |-> <<>>]

\* re.search(r"\{.*\}", text, re.DOTALL): the leftmost "{" and, greedily, the
\* last "}" after it
re_search(text) ==
    LET first == find(text, "{", 1)
        last == rfind(text, "}", Len(text))
    IN IF first >= 1 /\ last > first
       THEN [found |-> TRUE, group |-> SubSeq(text, first, last)]
       ELSE [found |-> FALSE, group |-> <<>>]

----------------------------------------------------------------------------
(* parse_json_response, lines 78-107 *)

\* the character U+0060, which a TLA+ string cannot hold
BT == "<backtick>"

FenceJson == <<BT, BT, BT, "j", "s", "o", "n">>
Fence == <<BT, BT, BT>>

\* line 84, line 107, and what json.loads raises
EmptyResponse == [type |-> "ValueError", msg |-> <<"Empty response text">>, id |-> 0]
CouldNotParse ==
    [type |-> "ValueError", msg |-> <<"Could not parse JSON from Gemini response">>, id |-> 0]
JSONDecodeError == [type |-> "JSONDecodeError", msg |-> <<"json.loads message">>, id |-> 0]

\* how parse_json_response ended
ParsePending == [kind |-> "pending", value |-> JNull, exc |-> NoExc]
ParseReturned(v) == [kind |-> "return", value |-> v, exc |-> NoExc]
ParseRaised(e) == [kind |-> "raise", value |-> JNull, exc |-> e]

\* slip: the emptiness test made after trimming
Falsy_after_strip(rt) == rt.isNone \/ strip(rt.text) = <<>>

\* line 83: "not response_text"
Falsy(rt) == rt.isNone \/ rt.text = <<>>

\* slip: the generic fence tested first, so the labeled one is never seen
StripLeadingFence_generic_first(text) ==
    IF startswith(text, Fence) THEN SliceFrom(text, 3)
    ELSE IF startswith(text, FenceJson) THEN SliceFrom(text, 7)
    ELSE text

\* lines 89-92
StripLeadingFence(text) ==
    IF startswith(text, FenceJson) THEN SliceFrom(text, 7)
    ELSE IF startswith(text, Fence) THEN SliceFrom(text, 3)
    ELSE text

\* slip: text[:-4]
StripTrailingFence_one_more(text) ==
    IF endswith(text, Fence) THEN SliceDropLast(text, 4) ELSE text

\* lines 94-95
StripTrailingFence(text) ==
    IF endswith(text, Fence) THEN SliceDropLast(text, 3) ELSE text

\* lines 86-97: the text handed to json.loads
Cleaned(cs) == strip(StripTrailingFence(StripLeadingFence(strip(cs))))

\* lines 102-105, inside "except json.JSONDecodeError": a JSONDecodeError of
\* the second json.loads is raised from within the handler and leaves the
\* function; without a match control falls to line 107
Fallback(text) ==
    LET json_match == re_search(text)
    IN IF json_match.found
       THEN LET second == json_loads(json_match.group)
            IN IF second.ok THEN ParseReturned(second.v) ELSE ParseRaised(JSONDecodeError)
       ELSE ParseRaised(CouldNotParse)

\* lines 99-107
ParseCleaned(text) ==
    LET first == json_loads(text)
    IN IF first.ok THEN ParseReturned(first.v) ELSE Fallback(text)

parse_json_response(rt) ==
    IF Falsy(rt) THEN ParseRaised(EmptyResponse) ELSE ParseCleaned(Cleaned(rt.text))

----------------------------------------------------------------------------
(* Response texts for ParseSpec *)

\* raw texts: every string over RawAlphabet of length <= MaxRawLen
MaxRawLen == 4
RawAlphabet == {"{", "}", "[", "]", "1", "\"", "a"}
RawTexts == UNION {[1 .. n -> RawAlphabet] : n \in 0 .. MaxRawLen}

\* json.dumps: ensure_ascii, separators ", " and ": "
DigitChars == <<"0", "1", "2", "3", "4", "5", "6", "7", "8", "9">>
RECURSIVE IntDigits(_)
IntDigits(n) ==
    IF n < 10 THEN <<DigitChars[n + 1]>>
    ELSE IntDigits(n \div 10) \o <<DigitChars[(n % 10) + 1]>>

EscapeChar(c) ==
    CASE c = "\"" -> <<"\\", "\"">>
      [] c = "\\" -> <<"\\", "\\">>
      [] c = "\n" -> <<"\\", "n">>
      [] c = "\t" -> <<"\\", "t">>
      [] c = "\r" -> <<"\\", "r">>
      [] c = "\f" -> <<"\\", "f">>
      [] OTHER -> <<c>>

RECURSIVE EscapeAll(_)
EscapeAll(cs) == IF cs = <<>> THEN <<>> ELSE EscapeChar(Head(cs)) \o EscapeAll(Tail(cs))

DumpsStr(cs) == <<"\"">> \o EscapeAll(cs) \o <<"\"">>

RECURSIVE dumps(_), DumpsItems(_), DumpsPairs(_)
dumps(x) ==
    CASE x.t = "int" -> (IF x.n < 0 THEN <<"-">> \o IntDigits(0 - x.n) ELSE IntDigits(x.n))
      [] x.t = "str" -> DumpsStr(x.s)
      [] x.t = "list" -> <<"[">> \o DumpsItems(x.items) \o <<"]">>
      [] x.t = "dict" -> <<"{">> \o DumpsPairs(x.items) \o <<"}">>
      [] x.t = "NoneType" -> <<"n", "u", "l", "l">>
      [] x.t = "bool" -> (IF x.n = 1 THEN <<"t", "r", "u", "e">> ELSE <<"f", "a", "l", "s", "e">>)
DumpsItems(items) ==
    IF items = <<>> THEN <<>>
    ELSE dumps(Head(items)[2])
         \o (IF Len(items) > 1 THEN <<",", " ">> \o DumpsItems(Tail(items)) ELSE <<>>)
DumpsPairs(pairs) ==
    IF pairs = <<>> THEN <<>>
    ELSE DumpsStr(Head(pairs)[1]) \o <<":", " ">> \o dumps(Head(pairs)[2])
         \o (IF Len(pairs) > 1 THEN <<",", " ">> \o DumpsPairs(Tail(pairs)) ELSE <<>>)

\* well-formed JSON objects: up to MaxKeys distinct keys, in any insertion order
MaxKeys == 2
ObjectKeys == {<<"a">>, <<BT, BT, BT, "\"">>, <<>>}
ObjectValues ==
    <<JInt(-20), JStr(<<"a", "\"", "\\", "\n", "}", BT, BT, BT>>),
      JList(<<JInt(1), JStr(<<"{">>), JNull, JList(<<>>)>>),
      JDict(<<<<<<"a">>, JList(<<JDict(<<>>), JBool(TRUE)>>)>>, <<<<>>, JBool(FALSE)>>>>)>>
Injective(f) == \A i, j \in DOMAIN f : i # j => f[i] # f[j]
Objects ==
    {JDict([i \in 1 .. n |-> <<ks[i], ObjectValues[vs[i]]>>]) :
        <<n, ks, vs>> \in
            UNION {{<<m, k, v>> : k \in {f \in [1 .. m -> ObjectKeys] : Injective(f)},
                                  v \in [1 .. m -> DOMAIN ObjectValues]} :
                   m \in 0 .. MaxKeys}}

\* what surrounds a serialized object
WsStrings == {<<>>, <<"\n">>, <<"\f", "\n", " ">>}
Separators == {<<>>, <<"\n">>}
\* the whitespace before the lead, between fence and object, after the trail
Surroundings ==
    {<<<<>>, <<>>, <<>>>>,
     <<<<>>, <<"\n">>, <<>>>>,
     <<<<"\n">>, <<>>, <<>>>>,
     <<<<"\f", "\n", " ">>, <<>>, <<"\n">>>>,
     <<<<"\f", "\n", " ">>, <<"\n">>, <<"\n">>>>,
     <<<<"\n">>, <<"\n">>, <<"\f", "\n", " ">>>>}
Leads == {FenceJson, Fence, <<>>, <<"a", ":", " ">>}
Trails == {Fence, <<>>, <<" ", "a", "}">>, <<"a">>}

\* texts of whitespace and fence markers only
EdgeTexts ==
    (WsStrings \ {<<>>})
    \cup {<<" ">>, <<"\t", "\r">>, Fence, FenceJson, <<BT, BT>>, <<BT, BT, BT, BT>>,
          <<BT, BT, BT, BT, BT>>, Fence \o Fence, FenceJson \o Fence,
          Fence \o <<" ">> \o Fence, <<"\n">> \o Fence \o <<"1">> \o Fence \o <<" ">>,
          FenceJson \o <<"1">>, Fence \o <<"j", "s", "o", "n", "1">> \o Fence \o Fence,
          <<"1">> \o Fence \o <<"1">>, <<"j", "s", "o", "n">> \o Fence}

Compose(pre, lead, sep, o, trail, post) == pre \o lead \o sep \o dumps(o) \o sep \o trail \o post

----------------------------------------------------------------------------
(* Callers and call frames for ConcSpec *)

Callers == {1, 2}

\* a thread in generate_with_retry(p, mt, n, **kw), or in no call
NewCall(p, mt, n, kw) ==
    [pc |-> "for", prompt |-> p, model_type |-> mt, max_retries |-> n, kwargs |-> kw,
     models |-> <<>>, calls |-> <<>>, outcomes |-> <<>>, sleeps |-> <<>>, trace |-> <<>>,
     result |-> Pending]
NoCall == [NewCall("p1", "flash", 3, "{}") EXCEPT !.pc = "idle"]

\* the locals of the loop on entry
NewFrame == [range_next |-> 0, attempt |-> Unbound, exc |-> NoExc]

ConcIdle ==
    /\ callers = [c \in Callers |-> NoCall]
    /\ frames = [f \in Callers |-> NewFrame]

\* slip: the loop's locals kept on the service object, one set for all calls
Frame_shared(c) == 1

\* a call has a frame of its own: attempt, the range iterator and e are locals
\* of generate_with_retry, and GeminiService holds no attribute
Frame(c) == c

\* the arguments of the two calls
CallerPrompt(c) == IF c = 1 THEN "p1" ELSE "p2"
CallerKwargs(c) == IF c = 1 THEN "{}" ELSE "{generation_config}"
ConcTiers == {"flash", "pro", "turbo"}
ConcBudgets == 0 .. (MaxRetriesBound - 1)

----------------------------------------------------------------------------
(* The specifications *)

RetryIdle ==
    /\ pc = "idle"
    /\ prompt = "p1"
    /\ model_type = "flash"
    /\ max_retries = 3
    /\ kwargs = "{}"
    /\ range_next = 0
    /\ attempt = Unbound
    /\ exc = NoExc
    /\ models = <<>>
    /\ calls = <<>>
    /\ outcomes = <<>>
    /\ sleeps = <<>>
    /\ trace = <<>>
    /\ result = Pending

ParseIdle ==
    /\ response_text = NoneText
    /\ wrapped = NotWrapped
    /\ parse_result = ParsePending

\* the state on entry to generate_with_retry(prompt, model_type, max_retries, **kwargs)
Init ==
    /\ pc = "for"
    /\ prompt \in Prompts
    /\ model_type \in ModelTypes
    /\ max_retries \in RetryBudgets
    /\ kwargs \in Kwargs
    /\ range_next = 0
    /\ attempt = Unbound
    /\ exc = NoExc
    /\ models = <<>>
    /\ calls = <<>>
    /\ outcomes = <<>>
    /\ sleeps = <<>>
    /\ trace = <<>>
    /\ result = Pending
    /\ ParseIdle
    /\ ConcIdle

Next ==
    \/ ForLoop
    \/ TryLite
    \/ TryFlash
    \/ TryPro
    \/ TryInvalid
    \/ Except
    \/ Sleep

Spec == Init /\ [][Next]_vars

\* the call is one thread of sequential code: a statement that can run does
\* run (generate_content returns or raises, time.sleep returns)
FairSpec == Init /\ [][Next]_vars /\ WF_vars(Next)

\* the state on entry to parse_json_response(response_text)
ParseInit ==
    /\ RetryIdle
    /\ ConcIdle
    /\ parse_result = ParsePending
    /\ \/ /\ response_text \in {NoneText} \cup {Text(cs) : cs \in RawTexts \cup EdgeTexts}
          /\ wrapped = NotWrapped
       \/ \E o \in Objects, l \in Leads, t \in Trails, ws \in Surroundings :
             /\ ws \in WsStrings \X Separators \X WsStrings
             /\ response_text = Text(Compose(ws[1], l, ws[2], o, t, ws[3]))
             /\ wrapped = WrappedAs(o, ws, l, t)

\* the call runs to its return or raise
ParseJsonResponse ==
    /\ pc = "idle"
    /\ parse_result = ParsePending
    /\ parse_result' = parse_json_response(response_text)
    /\ UNCHANGED <<response_text, wrapped>>
    /\ UNCHANGED retry_vars
    /\ UNCHANGED conc_vars

ParseNext == ParseJsonResponse

ParseSpec == ParseInit /\ [][ParseNext]_vars

\* the state when both callers have entered generate_with_retry
ConcInit ==
    /\ RetryIdle
    /\ ParseIdle
    /\ frames = [f \in Callers |-> NewFrame]
    /\ \E mt \in [Callers -> ConcTiers], n \in [Callers -> ConcBudgets] :
          callers = [c \in Callers |->
                        NewCall(CallerPrompt(c), mt[c], n[c], CallerKwargs(c))]

\* the locals caller c's call reads and writes
Local(c) == frames[Frame(c)]

\* line 54, run by caller c
CallForLoop(c) ==
    /\ callers[c].pc = "for"
    /\ IF RangeHasNext(Local(c).range_next, callers[c].max_retries)
       THEN /\ frames' = [frames EXCEPT ![Frame(c)] =
                             [@ EXCEPT !.attempt = Local(c).range_next,
                                       !.range_next = Local(c).range_next + 1]]
            /\ callers' = [callers EXCEPT ![c] =
                              [@ EXCEPT !.pc = "try", !.trace = Append(@, "try")]]
       ELSE /\ callers' = [callers EXCEPT ![c] =
                              [@ EXCEPT !.pc = "done", !.result = Raised(RetryExhausted)]]
            /\ UNCHANGED frames
    /\ UNCHANGED <<retry_vars, parse_vars>>

\* the identifier the generator of a tier builds its handle for
GeneratorModel(tier) ==
    CASE tier = "lite" -> LiteModel
      [] tier = "flash" -> FlashModel
      [] tier = "pro" -> ProModel

\* caller c's thread after a generator call for identifier id that came back with out
CallLogged(c, id, out) ==
    [callers[c] EXCEPT
        !.models = Append(@, id),
        !.calls = Append(@, <<id, callers[c].prompt, callers[c].kwargs>>),
        !.outcomes = Append(@, IF out.raises THEN Raised(out.exc)
                               ELSE Returned(GeneratorReturn(out.response)))]

\* lines 55-61, run by caller c: the generator of its tier, whose handle and
\* response are locals of the generator
CallTry(c) ==
    /\ callers[c].pc = "try"
    /\ Dispatch(callers[c].model_type) # "invalid"
    /\ \E out \in BackendOutcomes(Local(c).attempt + 1) :
          IF out.raises
          THEN /\ frames' = [frames EXCEPT ![Frame(c)] = [@ EXCEPT !.exc = out.exc]]
               /\ callers' = [callers EXCEPT ![c] =
                                 [CallLogged(c, GeneratorModel(Dispatch(callers[c].model_type)), out)
                                     EXCEPT !.pc = "except"]]
          ELSE /\ callers' = [callers EXCEPT ![c] =
                                 [CallLogged(c, GeneratorModel(Dispatch(callers[c].model_type)), out)
                                     EXCEPT !.pc = "done",
                                            !.result = Returned(GeneratorReturn(out.response))]]
               /\ UNCHANGED frames
    /\ UNCHANGED <<retry_vars, parse_vars>>

\* lines 62-63, run by caller c
CallTryInvalid(c) ==
    /\ callers[c].pc = "try"
    /\ Dispatch(callers[c].model_type) = "invalid"
    /\ frames' = [frames EXCEPT ![Frame(c)] =
                     [@ EXCEPT !.exc = InvalidModelType(callers[c].model_type,
                                                        Local(c).attempt + 1)]]
    /\ callers' = [callers EXCEPT ![c] = [@ EXCEPT !.pc = "except"]]
    /\ UNCHANGED <<retry_vars, parse_vars>>

\* lines 65-67, 69, run by caller c
CallExcept(c) ==
    /\ callers[c].pc = "except"
    /\ IF IsLastAttempt(Local(c).attempt, callers[c].max_retries)
       THEN callers' = [callers EXCEPT ![c] =
                           [@ EXCEPT !.pc = "done", !.result = Raised(Local(c).exc)]]
       ELSE callers' = [callers EXCEPT ![c] = [@ EXCEPT !.pc = "sleep"]]
    /\ UNCHANGED frames
    /\ UNCHANGED <<retry_vars, parse_vars>>

\* line 70, run by caller c: time.sleep blocks the calling thread only
CallSleep(c) ==
    /\ callers[c].pc = "sleep"
    /\ callers' = [callers EXCEPT ![c] =
                      [@ EXCEPT !.pc = "for",
                                !.sleeps = Append(@, WaitTime(Local(c).attempt)),
                                !.trace = Append(@, "sleep")]]
    /\ UNCHANGED frames
    /\ UNCHANGED <<retry_vars, parse_vars>>

\* one statement of one caller at a time, in any order
ConcNext ==
    \E c \in Callers :
        \/ CallForLoop(c)
        \/ CallTry(c)
        \/ CallTryInvalid(c)
        \/ CallExcept(c)
        \/ CallSleep(c)

ConcSpec == ConcInit /\ [][ConcNext]_vars

----------------------------------------------------------------------------
(* Properties of generate_with_retry, checked under Spec *)

ValidTier == model_type \in {"lite", "flash", "pro"}

\* the backend raised on the first k calls and returned on call k+1
FailsThenSucceeds(k) ==
    /\ Len(outcomes) = k + 1
    /\ \A i \in 1 .. k : outcomes[i].kind = "raise"
    /\ outcomes[k + 1].kind = "return"

AllRaised == \A i \in 1 .. Len(outcomes) : outcomes[i].kind = "raise"

\* the identifier configured for a tier
ConfiguredModel(mt) ==
    CASE mt = "lite" -> GEMINI_MODEL_LITE
      [] mt = "flash" -> GEMINI_MODEL_FLASH
      [] mt = "pro" -> GEMINI_MODEL_PRO

\* C1: with max_retries >= 1 and k < max_retries, a backend that raises on the
\* first k attempts and returns on attempt k+1 makes generate_with_retry return
\* that value after exactly k+1 backend calls and exactly k sleeps of
\* 2^0, 2^1, ..., 2^(k-1) seconds, in that order.
C1_FailsThenSucceeds ==
    \A k \in 0 .. (max_retries - 1) :
        (max_retries >= 1 /\ FailsThenSucceeds(k)) =>
            /\ pc = "done"
            /\ result = Returned(outcomes[k + 1].value)
            /\ Len(calls) = k + 1
            /\ sleeps = [i \in 1 .. k |-> 2 ^ (i - 1)]

C1_Witness ==
    /\ pc = "done"
    /\ max_retries = 3
    /\ FailsThenSucceeds(2)
    /\ sleeps = <<1, 2>>

\* C2: with a valid tier and max_retries >= 1, a backend that raises on every
\* attempt is called exactly max_retries times, never more, and
\* generate_with_retry then raises the very error of the final attempt; it
\* neither returns nor raises the generic exhausted-retries error.
C2_AlwaysFails ==
    (ValidTier /\ max_retries >= 1 /\ AllRaised) =>
        /\ Len(calls) <= max_retries
        /\ result.kind # "return"
        /\ result.exc # RetryExhausted
        /\ pc = "done" =>
              /\ Len(calls) = max_retries
              /\ result = Raised(outcomes[max_retries].exc)
              /\ result.exc.id = max_retries

C2_Witness ==
    /\ pc = "done"
    /\ ValidTier
    /\ max_retries = 3
    /\ Len(outcomes) = 3
    /\ AllRaised

\* C3 as stated: with an unrecognized tier and max_retries >= 1 the
\* invalid-argument error is raised on the first attempt, with no sleep and at
\* most one loop iteration.
C3_InvalidTierNotRetried ==
    (~ValidTier /\ max_retries >= 1) =>
        /\ sleeps = <<>>
        /\ Len(trace) <= 1
        /\ pc \notin {"sleep"}

\* C4: with an unrecognized tier, whatever max_retries is, no backend handle is
\* ever constructed, no backend call is ever issued, no value is ever returned,
\* and the call ends in an error.
C4_InvalidTierNeverDefaults ==
    ~ValidTier =>
        /\ models = <<>>
        /\ calls = <<>>
        /\ outcomes = <<>>
        /\ result.kind # "return"
        /\ pc = "done" => result.kind = "raise"
        /\ pc = "done" \/ ENABLED Next

C4_Witness ==
    /\ ~ValidTier
    /\ pc = "done"
    /\ max_retries = 3
    /\ result.exc.type = "ValueError"

\* C5: with max_retries <= 0, whatever the tier, there is no backend call and no
\* sleep, no value is returned, and the call fails with the RuntimeError of
\* line 72, which is neither a backend error nor the invalid-argument error.
C5_NonPositiveBudget ==
    max_retries <= 0 =>
        /\ models = <<>>
        /\ calls = <<>>
        /\ sleeps = <<>>
        /\ trace = <<>>
        /\ result.kind # "return"
        /\ pc = "done" =>
              /\ result = Raised(RetryExhausted)
              /\ result.exc.type = "RuntimeError"
              /\ result.exc.type \notin BackendErrorTypes \cup {"ValueError"}

C5_Witness ==
    /\ max_retries = 0
    /\ model_type = "turbo"
    /\ pc = "done"
    /\ result.exc.type = "RuntimeError"

\* C6: a backend call that returns normally, None included, ends the loop: its
\* value is the result of generate_with_retry, it is the last backend call, and
\* no sleep follows it.
C6_ReturnEndsLoop ==
    \A i \in 1 .. Len(outcomes) :
        outcomes[i].kind = "return" =>
            /\ i = Len(outcomes)
            /\ pc = "done"
            /\ result = Returned(outcomes[i].value)
            /\ Len(calls) = i
            /\ Len(sleeps) = i - 1
            /\ trace[Len(trace)] = "try"

C6_Witness ==
    /\ pc = "done"
    /\ Len(outcomes) = 2
    /\ outcomes[2] = Returned(None)
    /\ result = Returned(None)

\* C7: for a valid tier every attempt constructs one handle, for the identifier
\* configured for that tier, and issues one generate_content call on it with
\* the caller's prompt and options, the same on every attempt.
C7_DispatchToConfiguredModel ==
    ValidTier =>
        /\ Len(models) = Len(calls)
        /\ Len(calls) = Len(outcomes)
        /\ Len(calls) \in {Len(SelectSeq(trace, LAMBDA e : e = "try")),
                           Len(SelectSeq(trace, LAMBDA e : e = "try")) - 1}
        /\ pc # "try" => Len(calls) = Len(SelectSeq(trace, LAMBDA e : e = "try"))
        /\ \A i \in 1 .. Len(calls) :
              /\ models[i] = ConfiguredModel(model_type)
              /\ calls[i] = <<ConfiguredModel(model_type), prompt, kwargs>>

C7_Witness ==
    /\ model_type = "pro"
    /\ Len(calls) = 3
    /\ prompt = "p2"
    /\ kwargs = "{generation_config}"
    /\ calls[3] = <<GEMINI_MODEL_PRO, "p2", "{generation_config}">>

----------------------------------------------------------------------------
(* Properties of parse_json_response, checked under ParseSpec *)

ParseDone == parse_result # ParsePending

\* json.loads accepts the cleaned text / the first-"{"-to-last-"}" span of it
StrictParses(cs) == json_loads(Cleaned(cs)).ok
SpanParses(cs) ==
    /\ re_search(Cleaned(cs)).found
    /\ json_loads(re_search(Cleaned(cs)).group).ok

\* Python == on JSON values: dicts equal whatever the order of their keys
RECURSIVE PyEq(_, _)
PyEq(a, b) ==
    /\ a.t = b.t
    /\ a.n = b.n
    /\ a.s = b.s
    /\ Len(a.items) = Len(b.items)
    /\ IF a.t = "dict"
       THEN \A i \in 1 .. Len(a.items) : \E j \in 1 .. Len(b.items) :
               /\ a.items[i][1] = b.items[j][1]
               /\ PyEq(a.items[i][2], b.items[j][2])
       ELSE \A i \in 1 .. Len(a.items) : PyEq(a.items[i][2], b.items[i][2])

\* C8 as stated: for non-empty text of which neither the cleaned text nor its
\* brace-delimited span is valid JSON, the call fails with the one "Could not
\* parse JSON" error, also when a span is found that is not valid JSON.
C8_SingleParseFailure ==
    (/\ ParseDone
     /\ ~Falsy(response_text)
     /\ ~StrictParses(response_text.text)
     /\ ~SpanParses(response_text.text)) =>
        parse_result = ParseRaised(CouldNotParse)

\* C9 as stated: every value parse_json_response returns is a JSON object.
C9_ReturnsOnlyObjects ==
    parse_result.kind = "return" => parse_result.value.t = "dict"

\* C10: a well-formed JSON object, serialized, put between a leading fence of
\* either style and a trailing fence, with whitespace around, parses back to a
\* mapping equal to the object.
Fenced == wrapped.form = "wrapped" /\ wrapped.lead \in {FenceJson, Fence} /\ wrapped.trail = Fence

C10_RoundTrip ==
    (Fenced /\ ParseDone) =>
        /\ parse_result.kind = "return"
        /\ parse_result.value.t = "dict"
        /\ PyEq(parse_result.value, wrapped.obj[1])

C10_Witness ==
    /\ Fenced
    /\ ParseDone
    /\ wrapped.lead = Fence
    /\ wrapped.ws = <<<<"\f", "\n", " ">>, <<>>, <<"\n">>>>
    /\ Len(wrapped.obj[1].items) = 2
    /\ wrapped.obj[1].items[1][2].t = "str"
    /\ wrapped.obj[1].items[2][2].t = "dict"
    /\ parse_result = ParseReturned(wrapped.obj[1])

\* whitespace only, and at least one character
OnlyWhitespace(cs) == cs # <<>> /\ \A i \in 1 .. Len(cs) : cs[i] \in PyWhitespace

\* C11: None or "" fails with the empty-input error of line 84 whatever else
\* the function would do with it; that error differs from the errors raised
\* for non-empty input, and no non-empty input raises it; non-empty text of
\* whitespace only fails with the "Could not parse JSON" error of line 107.
C11_EmptyInput ==
    ParseDone =>
        /\ (response_text.isNone \/ response_text.text = <<>>) =>
              parse_result = ParseRaised(EmptyResponse)
        /\ ~(response_text.isNone \/ response_text.text = <<>>) =>
              parse_result # ParseRaised(EmptyResponse)
        /\ EmptyResponse.msg \notin {CouldNotParse.msg, JSONDecodeError.msg}
        /\ (~response_text.isNone /\ OnlyWhitespace(response_text.text)) =>
              parse_result = ParseRaised(CouldNotParse)

C11_Witness ==
    /\ ParseDone
    /\ response_text = Text(<<"\f", "\n", " ">>)
    /\ parse_result = ParseRaised(CouldNotParse)

----------------------------------------------------------------------------
(* Further properties of generate_with_retry, checked under Spec and FairSpec *)

RECURSIVE SumSeq(_)
SumSeq(s) == IF s = <<>> THEN 0 ELSE Head(s) + SumSeq(Tail(s))

\* attempts started so far
Tries == Len(SelectSeq(trace, LAMBDA e : e = "try"))

\* the call is over, all max_retries attempts were made and none returned
EveryAttemptFailed == pc = "done" /\ Tries = max_retries /\ result.kind # "return"

\* C12: with max_retries >= 1 the i-th sleep, the one after failed attempt
\* i-1, lasts 2^(i-1) seconds, and the sleeps of a run never add up to more
\* than 2^(max_retries-1) - 1; in a run where all max_retries attempts fail
\* there are exactly max_retries-1 sleeps, none after the final attempt, and
\* they add up to exactly 2^(max_retries-1) - 1.
C12_TotalDelay ==
    max_retries >= 1 =>
        /\ \A i \in 1 .. Len(sleeps) : sleeps[i] = 2 ^ (i - 1)
        /\ SumSeq(sleeps) <= 2 ^ (max_retries - 1) - 1
        /\ EveryAttemptFailed =>
              /\ Len(sleeps) = max_retries - 1
              /\ trace[Len(trace)] = "try"
              /\ SumSeq(sleeps) = 2 ^ (max_retries - 1) - 1

C12_Witness ==
    /\ EveryAttemptFailed
    /\ model_type = "lite"
    /\ max_retries = 3
    /\ Len(outcomes) = 3
    /\ sleeps = <<1, 2>>
    /\ SumSeq(sleeps) = 3

\* attempts that are over and did not return
FailedAttempts ==
    Tries - (IF pc = "try" THEN 1 ELSE 0) - Len(SelectSeq(outcomes, LAMBDA o : o.kind = "return"))

\* the trace starts with an attempt and alternates; a sleep that is under way
\* or over follows a failed attempt and the loop has a next attempt for it;
\* the sleeps are as many as the failed attempts, or one fewer
AttemptsAndSleepsAlternate ==
    /\ \A i \in 1 .. Len(trace) : trace[i] = (IF i % 2 = 1 THEN "try" ELSE "sleep")
    /\ Len(sleeps) = Len(SelectSeq(trace, LAMBDA e : e = "sleep"))
    /\ ValidTier =>
          FailedAttempts = Len(SelectSeq(outcomes, LAMBDA o : o.kind = "raise"))
    /\ Len(sleeps) \in {FailedAttempts, FailedAttempts - 1}
    /\ Len(sleeps) <= FailedAttempts
    /\ pc = "sleep" => exc # NoExc /\ FailedAttempts = Len(sleeps) + 1 /\ Tries < max_retries
    /\ (trace # <<>> /\ trace[Len(trace)] = "sleep") =>
          /\ pc = "for"
          /\ Tries < max_retries
          /\ ENABLED ForLoop
          /\ FailedAttempts = Len(sleeps)

\* C16 as stated: attempts and sleeps alternate, starting with an attempt, each
\* sleep between a failed attempt and the next attempt, the sleeps as many as
\* the failed attempts or one fewer, and the attempts never more than
\* max_retries.
C16_AsStated == AttemptsAndSleepsAlternate /\ Tries <= max_retries

\* C16, amended: the same, the attempts never more than max_retries when
\* max_retries is positive and none when it is not.
C16_AttemptsAndSleeps ==
    /\ AttemptsAndSleepsAlternate
    /\ Tries <= (IF max_retries > 0 THEN max_retries ELSE 0)

C16_Witness ==
    /\ pc = "for"
    /\ max_retries = 3
    /\ trace = <<"try", "sleep", "try", "sleep">>
    /\ sleeps = <<1, 2>>
    /\ FailedAttempts = 2

\* the three ways generate_with_retry ends: line 57/59/61 returned the value
\* of the last backend call; line 67 re-raised what attempt max_retries-1
\* raised; line 72 raised the RuntimeError
EndsReturned ==
    /\ result.kind = "return"
    /\ outcomes # <<>>
    /\ result = Returned(outcomes[Len(outcomes)].value)
EndsReraised ==
    /\ result.kind = "raise"
    /\ result.exc # RetryExhausted
    /\ result.exc = exc
    /\ exc.id = max_retries
    /\ Tries = max_retries
EndsExhausted == result = Raised(RetryExhausted)
ExactlyOneEnd ==
    \/ EndsReturned /\ ~EndsReraised /\ ~EndsExhausted
    \/ ~EndsReturned /\ EndsReraised /\ ~EndsExhausted
    \/ ~EndsReturned /\ ~EndsReraised /\ EndsExhausted

\* C17: whatever max_retries, the tier and the backend outcomes, the call
\* eventually ends; it ends in exactly one of the three ways and has no result
\* before; no loop iteration has an index of max_retries or more.
C17_Terminates ==
    /\ <>(pc = "done")
    /\ [](pc = "done" => ExactlyOneEnd)
    /\ [](pc # "done" => result = Pending)
    /\ []((attempt # Unbound => attempt < max_retries)
          /\ Tries <= (IF max_retries > 0 THEN max_retries ELSE 0))

C17_Witness ==
    /\ pc = "done"
    /\ model_type = "pro"
    /\ max_retries = 3
    /\ attempt = 2
    /\ EndsReraised
    /\ ExactlyOneEnd
    /\ result.exc.type \in BackendErrorTypes

----------------------------------------------------------------------------
(* Further properties of parse_json_response, checked under ParseSpec *)

\* res returns the value of the scan r when it has one
ValueOrRaise(r, res) == IF r.ok THEN res = ParseReturned(r.v) ELSE res.kind = "raise"
ValueOrElse(r, res, otherwise) == IF r.ok THEN res = ParseReturned(r.v) ELSE otherwise

\* the positions of character c in text
Positions(text, c) == {i \in 1 .. Len(text) : text[i] = c}
Least(S) == CHOOSE i \in S : \A j \in S : i <= j
Greatest(S) == CHOOSE i \in S : \A j \in S : j <= i

\* res is what parsing the span from the first "{" to the last "}" of text gives
WidestSpan(text, opens, closes, res) ==
    IF opens = {} \/ \A j \in closes : j < Least(opens)
    THEN res = ParseRaised(CouldNotParse)
    ELSE ValueOrRaise(json_loads(SubSeq(text, Least(opens), Greatest(closes))), res)

\* res is the value of text when json.loads accepts it, else that of its span
StrictElseWidestSpan(text, res) ==
    ValueOrElse(json_loads(text), res,
                WidestSpan(text, Positions(text, "{"), Positions(text, "}"), res))

\* C13: when json.loads accepts the cleaned text, its value is returned
\* whatever the brace span holds; when it does not, the one other text parsed is
\* the span from the first "{" to the last "}" of the cleaned text: its value
\* is returned when it is valid JSON and nothing is returned when it is not;
\* without a "}" after the first "{" the call fails with the "Could not parse
\* JSON" error.
C13_WidestSpan ==
    (ParseDone /\ ~response_text.isNone /\ response_text.text # <<>>) =>
        StrictElseWidestSpan(Cleaned(response_text.text), parse_result)

C13_Witness ==
    /\ ParseDone
    /\ wrapped.form = "wrapped"
    /\ wrapped.lead = <<"a", ":", " ">>
    /\ wrapped.trail = <<"a">>
    /\ Len(wrapped.obj[1].items) = 2
    /\ wrapped.obj[1].items[1][2].t = "dict"
    /\ wrapped.obj[1].items[2][2].t = "str"
    /\ ~json_loads(Cleaned(response_text.text)).ok
    /\ parse_result = ParseReturned(wrapped.obj[1])

\* cs without the whitespace before its first and after its last other character
Trimmed(cs) ==
    IF \A i \in 1 .. Len(cs) : cs[i] \in PyWhitespace THEN <<>>
    ELSE SubSeq(cs,
                CHOOSE i \in 1 .. Len(cs) :
                    cs[i] \notin PyWhitespace /\ \A j \in 1 .. (i - 1) : cs[j] \in PyWhitespace,
                CHOOSE i \in 1 .. Len(cs) :
                    cs[i] \notin PyWhitespace /\ \A j \in (i + 1) .. Len(cs) : cs[j] \in PyWhitespace)
HasPrefix(cs, p) == Len(cs) >= Len(p) /\ \A i \in 1 .. Len(p) : cs[i] = p[i]
HasSuffix(cs, p) == Len(cs) >= Len(p) /\ \A i \in 1 .. Len(p) : cs[Len(cs) - Len(p) + i] = p[i]

\* a less one leading marker: seven characters when it starts with the labeled
\* fence, else three when it starts with the plain one
LessLeadingMarker(a) ==
    IF HasPrefix(a, FenceJson) THEN SubSeq(a, 8, Len(a))
    ELSE IF HasPrefix(a, Fence) THEN SubSeq(a, 4, Len(a))
    ELSE a

\* b less one trailing plain fence
LessTrailingMarker(b) == IF HasSuffix(b, Fence) THEN SubSeq(b, 1, Len(b) - 3) ELSE b

Unfenced(cs) == Trimmed(LessTrailingMarker(LessLeadingMarker(Trimmed(cs))))

\* the text json.loads is first given is u, and its value, if any, is res
FirstParsed(cs, u, res) == Cleaned(cs) = u /\ ValueOrElse(json_loads(u), res, TRUE)

\* C14: the text json.loads is first given is the trimmed input with at most
\* one leading fence marker and at most one trailing fence removed and trimmed
\* again, every other character kept in place, fences inside it included; when
\* that text is valid JSON its value is what the call returns.
C14_OnlyFencesRemoved ==
    (ParseDone /\ ~response_text.isNone /\ response_text.text # <<>>) =>
        FirstParsed(response_text.text, Unfenced(response_text.text), parse_result)

C14_Witness ==
    /\ ParseDone
    /\ wrapped.form = "wrapped"
    /\ wrapped.lead = FenceJson
    /\ wrapped.trail = Fence
    /\ wrapped.ws = <<<<"\f", "\n", " ">>, <<"\n">>, <<"\n">>>>
    /\ Len(wrapped.obj[1].items) = 2
    /\ wrapped.obj[1].items[1][1] = <<BT, BT, BT, "\"">>
    /\ wrapped.obj[1].items[2][2].t = "str"
    /\ Cleaned(response_text.text) = dumps(wrapped.obj[1])
    /\ Len(Cleaned(response_text.text)) = Len(response_text.text) - 16
    /\ parse_result.kind = "return"

----------------------------------------------------------------------------
(* Two concurrent calls, checked under ConcSpec *)

\* the result a call with n >= 1 attempts has when it is over, from its tier
\* and from what its own backend calls did
OwnResult(th) ==
    IF th.max_retries <= 0 THEN Raised(RetryExhausted)
    ELSE IF th.model_type \notin {"lite", "flash", "pro"}
         THEN Raised(InvalidModelType(th.model_type, th.max_retries))
    ELSE IF th.outcomes # <<>> /\ th.outcomes[Len(th.outcomes)].kind = "return"
         THEN Returned(th.outcomes[Len(th.outcomes)].value)
    ELSE IF Len(th.outcomes) = th.max_retries
         THEN Raised(th.outcomes[th.max_retries].exc)
    ELSE Pending

\* failed attempts of a thread so far
OwnFailures(th) ==
    IF th.model_type \in {"lite", "flash", "pro"}
    THEN Len(SelectSeq(th.outcomes, LAMBDA o : o.kind = "raise"))
    ELSE Len(SelectSeq(th.trace, LAMBDA e : e = "try")) - (IF th.pc = "try" THEN 1 ELSE 0)

\* what a thread saw is what a call alone would see, given its arguments and
\* the outcomes of its own backend calls
RunsAsAlone(th) ==
    /\ Len(th.models) = Len(th.calls)
    /\ Len(th.calls) = Len(th.outcomes)
    /\ Len(th.calls) <= (IF th.max_retries > 0 THEN th.max_retries ELSE 0)
    /\ \A i \in 1 .. Len(th.calls) :
          /\ th.calls[i] = <<ConfiguredModel(th.model_type), th.prompt, th.kwargs>>
          /\ i < Len(th.calls) => th.outcomes[i].kind = "raise"
          /\ th.outcomes[i].kind = "raise" => th.outcomes[i].exc.id = i
    /\ th.sleeps = [i \in 1 .. Len(th.sleeps) |-> 2 ^ (i - 1)]
    /\ Len(th.sleeps) =
          (IF th.pc \in {"except", "sleep"} \/ (th.pc = "done" /\ th.result.kind = "raise"
                                               /\ th.result.exc # RetryExhausted)
           THEN OwnFailures(th) - 1 ELSE OwnFailures(th))
    /\ th.pc = "done" => th.result = OwnResult(th) /\ th.result # Pending
    /\ th.pc # "done" => th.result = Pending

\* C15: with two calls of generate_with_retry under way at once, under every
\* interleaving of their statements, each caller's result, backend calls and
\* sleeps are those of a call running alone with the caller's arguments and the
\* outcomes of the caller's own backend calls.
C15_NoInterference ==
    \A c \in Callers :
        /\ callers[c].prompt = CallerPrompt(c)
        /\ RunsAsAlone(callers[c])

C15_Witness ==
    /\ callers[1].pc = "sleep"
    /\ callers[1].model_type = "flash"
    /\ callers[1].sleeps = <<>>
    /\ frames[1].attempt = 0
    /\ callers[2].pc = "try"
    /\ callers[2].model_type = "pro"
    /\ callers[2].sleeps = <<1>>
    /\ frames[2].attempt = 1
====
